---- MODULE Spec2Model ----
(***************************************************************************)
(* A model of coursera_dl.py: main loops over the class names; for each    *)
(* class download_class authenticates (write_cookie_file), gets the        *)
(* syllabus page (get_syllabus), parses it (parse_syllabus) and downloads  *)
(* the lecture resources (download_lectures, download_file).               *)
(*                                                                         *)
(* Line 365 of the source reads "if not local_page" without its colon; the *)
(* model reads it as the statement "if not local_page:" it stands for.     *)
(*                                                                         *)
(* Strings are sequences of one-character strings.  Time is in seconds.    *)
(***************************************************************************)
EXTENDS Integers, Sequences, FiniteSets, TLC

VARIABLES
    args,               \* the parsed command line (parseArgs)
    pc,                 \* position of the single thread of control
    ci,                 \* index of class_name in args.class_names (main's for loop)
    completed_classes,  \* main's list
    csrftoken,          \* module global
    session,            \* module global
    auth_status,        \* r.status_code of this class's login POST, 0 before it
    raised,             \* the exception in flight or last raised, "none" if none
    local_file,         \* the file at args.local_page: [exists, content]
    page,               \* download_class's page
    sections,           \* download_class's sections
    secnum, lecnum,     \* download_lectures' enumerate counters (0-based)
    items,              \* the filtered lecture.items() still to write
    fs,                 \* the files whose state is known: path -> entry
    dirs,               \* the directories known to exist: path -> "pre" | "made"
    last_update,        \* download_lectures' last_update
    completed,          \* the value download_lectures returned (at pc = "dc_finish")
    clock,              \* time.time()
    xfer,               \* the transfer in flight in download_file
    attempts,           \* history: the files download_file was called for, this class
    touched,            \* history: the placeholder files written, this class
    stamps,             \* history: when each file of this class was last updated: the
                        \* return of a transfer that succeeded, a placeholder's
                        \* creation, the mtime of a file already present
    live_fetches,       \* history: the number of live fetches of a syllabus page
    failed,             \* history: the files whose downloader returned non-zero, this class
    finished,           \* history: the files whose downloader returned 0, with their mtime
    started,            \* history: the class names download_class was called with
    not_found,          \* history: the class names main caught ClassNotFound for
    cf                  \* clean_filename's argument and results (SpecClean)

vars == <<args, pc, ci, completed_classes, csrftoken, session, auth_status,
          raised, local_file, page, sections, secnum, lecnum, items, fs, dirs,
          last_update, completed, clock, xfer, attempts, touched, stamps,
          live_fetches, failed, finished, started, not_found, cf>>

progvars == <<args, pc, ci, completed_classes, csrftoken, session, auth_status,
              raised, local_file, page, sections, secnum, lecnum, items, fs, dirs,
              last_update, completed, clock, xfer, attempts, touched, stamps,
              live_fetches, failed, finished, started, not_found>>

----------------------------------------------------------------------------
(* Bounds *)

\* the number of class names on the command line
MaxClasses == 2
\* the number of times the clock advances during a run
MaxTicks == 1
\* the number of command-line options that differ from their defaults
MaxOptions == 1
\* the longest string clean_filename is applied to in SpecClean
MaxLen == 4

----------------------------------------------------------------------------
(* Helpers on sequences and sets *)

Range(s) == {s[i] : i \in 1..Len(s)}

Max(a, b) == IF a >= b THEN a ELSE b

SetMax(S) == CHOOSE x \in S : \A y \in S : y <= x

RECURSIVE SelectKeep(_, _)
SelectKeep(s, keep) ==
    IF s = <<>> THEN <<>>
    ELSE IF Head(s) \in keep THEN <<Head(s)>> \o SelectKeep(Tail(s), keep)
    ELSE SelectKeep(Tail(s), keep)

\* list.reverse()
ReverseNot(s) == s
Reverse(s) == [i \in 1..Len(s) |-> s[Len(s) + 1 - i]]

\* re.search(pattern, s) for a pattern without metacharacters: substring search
IsSubstring(p, s) ==
    \E i \in 0..(Len(s) - Len(p)) : SubSeq(s, i + 1, i + Len(p)) = p

----------------------------------------------------------------------------
(* clean_filename *)

Letters == {"a", "b", "n", "p", "s", "x", "y", "A", "B"}
Digits == {"1", "5"}
valid_chars == {"-", "_", ".", "(", ")"} \cup Letters \cup Digits
Whitespace == {" "}

\* re.sub("\([^\(]*$", '', s): cut from the last "(" to the end
StripParen(s) ==
    LET opens == {i \in 1..Len(s) : s[i] = "("}
    IN  IF opens = {} THEN s ELSE SubSeq(s, 1, SetMax(opens) - 1)

\* s.strip()
Strip(s) ==
    LET solid == {i \in 1..Len(s) : s[i] \notin Whitespace}
    IN  IF solid = {} THEN <<>>
        ELSE SubSeq(s, CHOOSE i \in solid : \A j \in solid : i <= j, SetMax(solid))

\* s.replace(':', '-').replace(' ', '_')
ReplaceChars(s) ==
    [i \in 1..Len(s) |-> IF s[i] = ":" THEN "-" ELSE IF s[i] = " " THEN "_" ELSE s[i]]

\* s.replace('nbsp', ''): one pass, left to right, non-overlapping
RECURSIVE RemoveNbsp(_)
RemoveNbsp(s) ==
    IF s = <<>> THEN <<>>
    ELSE IF Len(s) >= 4 /\ SubSeq(s, 1, 4) = <<"n", "b", "s", "p">>
         THEN RemoveNbsp(SubSeq(s, 5, Len(s)))
         ELSE <<Head(s)>> \o RemoveNbsp(Tail(s))

clean_filename(s) ==
    SelectKeep(RemoveNbsp(ReplaceChars(Strip(StripParen(s)))), valid_chars)

----------------------------------------------------------------------------
(* The environment: the site's pages, the login endpoint, the clock *)

Day == 24 * 3600
\* the clock advances in steps of ten days, so that 30 days is hit exactly
Step == 10 * Day
Now0 == 100 * Day
\* modification times of the files found on disk: never in the future
OldMtimes == {Now0 - 4 * Step, Now0 - 3 * Step}

StatusCodes == {200, 401, 404}

\* A page is a sequence of section headers, each with its list of lectures;
\* an anchor is <<format of the href per get_anchor_format or "none", href>>.
\* two sections of one lecture each
SectionsPage ==
    << [name |-> <<"A", " ", "(", "1", ")">>,
        lectures |-> << [name |-> <<"x", ":", "1">>,
                         anchors |-> << <<"mp4", "u1">> >>] >>],
       [name |-> <<"B">>,
        lectures |-> << [name |-> <<"x", ":", "1">>,
                         anchors |-> << <<"mp4", "u2">>, <<"none", "u3">> >>] >>] >>

\* one section with two lectures
LecturesPage ==
    << [name |-> <<"A">>,
        lectures |-> << [name |-> <<"x">>,
                         anchors |-> << <<"none", "u1">>, <<"mp4", "u2">> >>],
                        [name |-> <<"y", " ", "(", "5", ")">>,
                         anchors |-> << <<"mp4", "u3">> >>] >>] >>

\* one lecture in two formats, the first format offered twice
FormatsPage ==
    << [name |-> <<"B">>,
        lectures |-> << [name |-> <<"y">>,
                         anchors |-> << <<"mp4", "u1">>, <<"pdf", "u2">>,
                                        <<"mp4", "u3">> >>] >>] >>

\* one section with one lecture
SmallPage ==
    << [name |-> <<"A">>,
        lectures |-> << [name |-> <<"x">>, anchors |-> << <<"mp4", "u1">> >>] >>] >>

\* its last lecture offers no mp4
BadPage ==
    << [name |-> <<"A">>,
        lectures |-> << [name |-> <<"x">>, anchors |-> << <<"mp4", "u1">> >>] >>],
       [name |-> <<"B">>,
        lectures |-> << [name |-> <<"y">>, anchors |-> << <<"pdf", "u2">> >>] >>] >>

EmptyPage == <<>>

\* The site holds two courses, a full one under the first class name and a
\* short one under the second; any other class name gets a page without
\* lectures or with a hidden video.  A local page file holds a short page.
Pages == {SectionsPage, LecturesPage, FormatsPage, SmallPage, BadPage, EmptyPage}
LaterPages == {SmallPage, BadPage, EmptyPage}
NoCoursePages == {BadPage, EmptyPage}
ServedPages(i) == IF i = 1 THEN Pages ELSE IF i = 2 THEN LaterPages ELSE NoCoursePages

NoFile == [exists |-> FALSE, kind |-> "none", mtime |-> 0]
File(kind, mtime) == [exists |-> TRUE, kind |-> kind, mtime |-> mtime]

----------------------------------------------------------------------------
(* parse_syllabus *)

\* lecture[fmt] = href for each anchor with a format, in anchor order
RECURSIVE BuildLecture(_, _)
BuildLecture(anchors, lecture) ==
    IF anchors = <<>> THEN lecture
    ELSE LET a == Head(anchors)
             known == {i \in 1..Len(lecture) : lecture[i][1] = a[1]}
         IN  IF a[1] = "none" THEN BuildLecture(Tail(anchors), lecture)
             ELSE IF known = {} THEN BuildLecture(Tail(anchors), Append(lecture, a))
             ELSE BuildLecture(Tail(anchors),
                      [i \in 1..Len(lecture) |-> IF i \in known THEN a ELSE lecture[i]])

LectureFormats(lecture) == {lecture[i][1] : i \in 1..Len(lecture)}

\* the check of lines 441-442
MissingVideoSkipped(lecture) == FALSE
MissingVideo(lecture) == "mp4" \notin LectureFormats(lecture)

ParseSection(stag) ==
    [name |-> clean_filename(stag.name),
     lectures |-> [i \in 1..Len(stag.lectures) |->
                     [name |-> clean_filename(stag.lectures[i].name),
                      lecture |-> BuildLecture(stag.lectures[i].anchors, <<>>)]]]

\* [raised, sections]: ClassNotFound is raised when some lecture misses its video
parse_syllabus(pg, reverse) ==
    LET parsed == [i \in 1..Len(pg) |-> ParseSection(pg[i])]
        bad == \E i \in 1..Len(parsed) : \E j \in 1..Len(parsed[i].lectures) :
                   MissingVideo(parsed[i].lectures[j].lecture)
    IN  IF bad THEN [raised |-> TRUE, sections |-> <<>>]
        ELSE [raised |-> FALSE,
              sections |-> IF parsed # <<>> /\ reverse THEN Reverse(parsed) ELSE parsed]

----------------------------------------------------------------------------
(* download_lectures: the pure parts *)

format_section(num, section, class_name, verbose_dirs) ==
    [prefix |-> IF verbose_dirs THEN class_name ELSE 0, num |-> num, name |-> section]

format_resource(num, name, fmt) == [num |-> num, name |-> name, fmt |-> fmt]

\* os.path.join(path, class_name, format_section(...))
SecDir(class_name, num, section, verbose_dirs) ==
    [cls |-> class_name, sec |-> format_section(num, section, class_name, verbose_dirs)]

\* os.path.join(sec, format_resource(...))
LecFn(sec, num, name, fmt) == [dir |-> sec, file |-> format_resource(num, name, fmt)]

\* "section_filter and not re.search(section_filter, section)"
Filtered(filter, name) == filter # <<>> /\ ~IsSubstring(filter, name)

\* "i[0] in file_formats or 'all' in file_formats"
WantedAlways(fmt, file_formats) == TRUE
Wanted(fmt, file_formats) == fmt \in file_formats \/ "all" \in file_formats

WantedItems(lecture, file_formats) ==
    SelectKeep(lecture, {lecture[i] : i \in {j \in 1..Len(lecture) :
                                               Wanted(lecture[j][1], file_formats)}})

\* "overwrite or not os.path.exists(lecfn)"
ShouldWriteAlways(overwrite, exists) == TRUE
ShouldWrite(overwrite, exists) == overwrite \/ ~exists

\* datetime.timedelta(days=n), normalised
timedelta(days) == [days |-> days, seconds |-> 0, microseconds |-> 0]

\* (td.microseconds + (td.seconds + td.days * 24 * 3600) * 10**6) // 10**6,
\* computed without the intermediate product (0 <= td.microseconds < 10**6)
total_seconds(td) ==
    td.seconds + td.days * 24 * 3600 + (td.microseconds \div 1000000)

\* lines 541-545
CompleteWithoutThreshold(last, now) == last >= 0
Complete(last, now) ==
    last >= 0 /\ now - last > total_seconds(timedelta(30))

\* download_file's choice of downloader
Backend(a) ==
    IF a.wget_bin THEN "wget"
    ELSE IF a.curl_bin THEN "curl"
    ELSE IF a.aria2_bin THEN "aria2"
    ELSE IF a.axel_bin THEN "axel"
    ELSE "native"

----------------------------------------------------------------------------
(* The state after parseArgs *)

class_names == [i \in 1..MaxClasses |-> i]

Filters == {<<>>, <<"A">>, <<"B">>, <<"x">>, <<"y">>}
FormatLists == {{"all"}, {"pdf"}, {"mp4", "srt"}}

Downloaders(a) ==
    {b \in {"wget", "curl", "aria2", "axel"} :
        \/ b = "wget" /\ a.wget_bin
        \/ b = "curl" /\ a.curl_bin
        \/ b = "aria2" /\ a.aria2_bin
        \/ b = "axel" /\ a.axel_bin}

\* the options given that differ from a plain run with a cookies file
Options(a) ==
    {o \in {"username", "no_cookies_file", "local_page", "overwrite", "skip_download",
            "reverse", "verbose_dirs", "file_formats", "section_filter",
            "lecture_filter", "downloader"} :
        \/ o = "username" /\ a.username
        \/ o = "no_cookies_file" /\ ~a.cookies_file
        \/ o = "local_page" /\ a.local_page
        \/ o = "overwrite" /\ a.overwrite
        \/ o = "skip_download" /\ a.skip_download
        \/ o = "reverse" /\ a.reverse
        \/ o = "verbose_dirs" /\ a.verbose_dirs
        \/ o = "file_formats" /\ a.file_formats # {"all"}
        \/ o = "section_filter" /\ a.section_filter # <<>>
        \/ o = "lecture_filter" /\ a.lecture_filter # <<>>
        \/ o = "downloader" /\ Downloaders(a) # {}}

\* parseArgs leaves a cookies file or a username (lines 829-838); at most one
\* downloader binary is given
ArgsSet ==
    {a \in [username : BOOLEAN, cookies_file : BOOLEAN, local_page : BOOLEAN,
            overwrite : BOOLEAN, skip_download : BOOLEAN, reverse : BOOLEAN,
            verbose_dirs : BOOLEAN, file_formats : FormatLists,
            section_filter : Filters, lecture_filter : Filters,
            wget_bin : BOOLEAN, curl_bin : BOOLEAN, aria2_bin : BOOLEAN,
            axel_bin : BOOLEAN] :
        /\ a.username \/ a.cookies_file
        /\ Cardinality(Downloaders(a)) <= 1
        /\ Cardinality(Options(a)) <= MaxOptions}

NoXfer == [fn |-> <<>>, stage |-> "none"]
CfIdle == [stage |-> "idle", s |-> <<>>, once |-> <<>>, twice |-> <<>>]

Init ==
    /\ args \in ArgsSet
    /\ pc = "main"
    /\ ci = 1
    /\ completed_classes = <<>>
    /\ csrftoken = ""
    /\ session = ""
    /\ auth_status = 0
    /\ raised = "none"
    /\ local_file \in {[exists |-> FALSE, content |-> <<>>]}
                        \cup {[exists |-> TRUE, content |-> p] : p \in LaterPages}
    /\ (~args.local_page => ~local_file.exists)
    /\ page = <<>>
    /\ sections = <<>>
    /\ secnum = 0
    /\ lecnum = 0
    /\ items = <<>>
    /\ fs = <<>>
    /\ dirs = <<>>
    /\ last_update = -1
    /\ completed = FALSE
    /\ clock = Now0
    /\ xfer = NoXfer
    /\ attempts = <<>>
    /\ touched = {}
    /\ stamps = {}
    /\ live_fetches = 0
    /\ failed = {}
    /\ finished = {}
    /\ started = <<>>
    /\ not_found = {}
    /\ cf = CfIdle

----------------------------------------------------------------------------
(* main and download_class *)

class_name == class_names[ci]

\* main, lines 893-896: the next class name; download_class, lines 849-851
DownloadClass ==
    /\ pc = "main"
    /\ ci <= Len(class_names)
    /\ pc' = IF args.username THEN "write_cookie_file" ELSE "get_syllabus"
    /\ raised' = "none"
    /\ page' = <<>>
    /\ sections' = <<>>
    /\ completed' = FALSE
    /\ attempts' = <<>>
    /\ touched' = {}
    /\ stamps' = {}
    /\ failed' = {}
    /\ auth_status' = 0
    /\ started' = Append(started, class_name)
    /\ UNCHANGED <<args, ci, completed_classes, csrftoken, session,
                   local_file, secnum, lecnum, items, fs, dirs, last_update, clock,
                   xfer, live_fetches, cf>>
    /\ UNCHANGED <<finished, not_found>>

\* main, lines 901-902
MainDone ==
    /\ pc = "main"
    /\ ci > Len(class_names)
    /\ pc' = "done"
    /\ UNCHANGED <<args, ci, completed_classes, csrftoken, session, auth_status,
                   raised, local_file, page, sections, secnum, lecnum, items, fs,
                   dirs, last_update, completed, clock, xfer, attempts, touched,
                   stamps, live_fetches, cf>>
    /\ UNCHANGED <<failed, finished, started, not_found>>

\* lines 158-163: what write_cookie_file does with the status of the login POST
write_cookie_file_raises(status) ==
    IF status = 404 THEN "ClassNotFound" ELSE "ClassNotFound"

WriteCookieFile ==
    /\ pc = "write_cookie_file"
    /\ \E status \in StatusCodes :
        /\ auth_status' = status
        /\ csrftoken' = "csrf"
        /\ raised' = write_cookie_file_raises(status)
        \* line 163, "session = s", follows a raise on either branch
        /\ session' = IF write_cookie_file_raises(status) = "none" THEN "s" ELSE session
        /\ pc' = IF write_cookie_file_raises(status) = "none"
                 THEN "get_syllabus" ELSE "except"
    /\ UNCHANGED <<args, ci, completed_classes, local_file, page, sections, secnum,
                   lecnum, items, fs, dirs, last_update, completed, clock, xfer,
                   attempts, touched, stamps, live_fetches, cf>>
    /\ UNCHANGED <<failed, finished, started, not_found>>

\* main's for loop after a caught ClassNotFound: the next class name
NextClassBreak(i) == Len(class_names) + 1
NextClass(i) == i + 1

\* main, lines 898-899
CatchClassNotFound ==
    /\ pc = "except"
    /\ raised = "ClassNotFound"
    /\ ci' = NextClass(ci)
    /\ not_found' = not_found \cup {class_name}
    /\ pc' = "main"
    /\ UNCHANGED <<args, completed_classes, csrftoken, session, auth_status, raised,
                   local_file, page, sections, secnum, lecnum, items, fs, dirs,
                   last_update, completed, clock, xfer, attempts, touched, stamps,
                   live_fetches, cf>>
    /\ UNCHANGED <<failed, finished, started>>

\* any other exception leaves main: the interpreter prints it and exits
Uncaught ==
    /\ pc = "except"
    /\ raised # "ClassNotFound"
    /\ pc' = IF raised = "SystemExit" THEN "exited" ELSE "crashed"
    /\ UNCHANGED <<args, ci, completed_classes, csrftoken, session, auth_status,
                   raised, local_file, page, sections, secnum, lecnum, items, fs,
                   dirs, last_update, completed, clock, xfer, attempts, touched,
                   stamps, live_fetches, cf>>
    /\ UNCHANGED <<failed, finished, started, not_found>>

\* get_syllabus, lines 354-380
GetSyllabus ==
    /\ pc = "get_syllabus"
    /\ IF ~args.local_page
       THEN \* down_the_wabbit_hole and get_page; the write of lines 372-374 is
            \* under "if not local_page" and never runs
            \/ \E p \in ServedPages(ci) :
                /\ page' = p
                /\ session' = "cookie"
                /\ live_fetches' = live_fetches + 1
                /\ pc' = "parse_syllabus"
                /\ UNCHANGED raised
            \/ /\ raised' = "HTTPError"
               /\ pc' = "except"
               /\ UNCHANGED <<page, session, live_fetches>>
       ELSE IF local_file.exists
            THEN /\ page' = local_file.content
                 /\ pc' = "parse_syllabus"
                 /\ UNCHANGED <<raised, session, live_fetches>>
            ELSE \* lines 359-361 pass, line 376 opens the missing file
                 /\ raised' = "IOError"
                 /\ pc' = "except"
                 /\ UNCHANGED <<page, session, live_fetches>>
    /\ UNCHANGED <<args, ci, completed_classes, csrftoken, auth_status, local_file,
                   sections, secnum, lecnum, items, fs, dirs, last_update, completed,
                   clock, xfer, attempts, touched, stamps, cf>>
    /\ UNCHANGED <<failed, finished, started, not_found>>

\* parse_syllabus as download_class calls it, lines 858-859, and the first
\* line of download_lectures
ParseSyllabus ==
    /\ pc = "parse_syllabus"
    /\ LET r == parse_syllabus(page, args.reverse)
       IN  IF r.raised
           THEN /\ raised' = "ClassNotFound"
                /\ pc' = "except"
                /\ UNCHANGED <<sections, secnum, last_update>>
           ELSE /\ sections' = r.sections
                /\ secnum' = 0
                /\ last_update' = -1
                /\ pc' = "dl_section"
                /\ UNCHANGED raised
    /\ UNCHANGED <<args, ci, completed_classes, csrftoken, session, auth_status,
                   local_file, page, lecnum, items, fs, dirs, completed, clock, xfer,
                   attempts, touched, stamps, live_fetches, cf>>
    /\ UNCHANGED <<failed, finished, started, not_found>>

----------------------------------------------------------------------------
(* download_lectures *)

CurSection == sections[secnum + 1]
CurLecture == CurSection.lectures[lecnum + 1]
\* line 509
CurSecCountingKept ==
    SecDir(class_name,
           1 + Cardinality({i \in 1..secnum :
                               ~Filtered(args.section_filter, sections[i].name)}),
           CurSection.name, args.verbose_dirs)
CurSec == SecDir(class_name, secnum + 1, CurSection.name, args.verbose_dirs)
\* line 522
CurFn == LecFn(CurSec, lecnum + 1, CurLecture.name, Head(items)[1])

\* lines 504-510: the head of the loop over the sections
DLSection ==
    /\ pc = "dl_section"
    /\ IF secnum >= Len(sections)
       THEN /\ pc' = "dl_return"
            /\ UNCHANGED <<secnum, lecnum>>
       ELSE IF Filtered(args.section_filter, CurSection.name)
            THEN /\ secnum' = secnum + 1
                 /\ UNCHANGED <<pc, lecnum>>
            ELSE /\ pc' = "dl_lecture"
                 /\ lecnum' = 0
                 /\ UNCHANGED secnum
    /\ UNCHANGED <<args, ci, completed_classes, csrftoken, session, auth_status,
                   raised, local_file, page, sections, items, fs, dirs, last_update,
                   completed, clock, xfer, attempts, touched, stamps, live_fetches, cf>>
    /\ UNCHANGED <<failed, finished, started, not_found>>

\* lines 511-521: the head of the loop over the lectures of a section; the
\* directory is there already ("pre") or mkdir_p makes it ("made")
DLLecture ==
    /\ pc = "dl_lecture"
    /\ IF lecnum >= Len(CurSection.lectures)
       THEN /\ secnum' = secnum + 1
            /\ pc' = "dl_section"
            /\ UNCHANGED <<lecnum, items, dirs>>
       ELSE IF Filtered(args.lecture_filter, CurLecture.name)
            THEN /\ lecnum' = lecnum + 1
                 /\ UNCHANGED <<pc, secnum, items, dirs>>
            ELSE /\ IF CurSec \in DOMAIN dirs
                    THEN UNCHANGED dirs
                    ELSE \E d \in {"pre", "made"} : dirs' = (CurSec :> d) @@ dirs
                 /\ items' = WantedItems(CurLecture.lecture, args.file_formats)
                 /\ pc' = "dl_item"
                 /\ UNCHANGED <<secnum, lecnum>>
    /\ UNCHANGED <<args, ci, completed_classes, csrftoken, session, auth_status,
                   raised, local_file, page, sections, fs, last_update, completed,
                   clock, xfer, attempts, touched, stamps, live_fetches, cf>>
    /\ UNCHANGED <<failed, finished, started, not_found>>

\* what os.path.exists(lecfn) finds for a file the run has not seen yet: a
\* directory the run made holds nothing
StatFile ==
    /\ pc = "dl_item"
    /\ items # <<>>
    /\ CurFn \notin DOMAIN fs
    /\ \E e \in {NoFile} \cup (IF dirs[CurSec] = "pre"
                               THEN {File("old", m) : m \in OldMtimes} ELSE {}) :
        fs' = (CurFn :> e) @@ fs
    /\ UNCHANGED <<args, pc, ci, completed_classes, csrftoken, session, auth_status,
                   raised, local_file, page, sections, secnum, lecnum, items, dirs,
                   last_update, completed, clock, xfer, attempts, touched, stamps,
                   live_fetches, cf>>
    /\ UNCHANGED <<failed, finished, started, not_found>>

\* lines 519-537: one (fmt, url) of the lecture
DLItem ==
    /\ pc = "dl_item"
    /\ IF items = <<>>
       THEN /\ lecnum' = lecnum + 1
            /\ pc' = "dl_lecture"
            /\ UNCHANGED <<items, fs, last_update, xfer, attempts, touched, stamps>>
       ELSE /\ CurFn \in DOMAIN fs
            /\ UNCHANGED lecnum
            /\ IF ShouldWrite(args.overwrite, fs[CurFn].exists)
               THEN IF ~args.skip_download
                    THEN \* download_file(url, lecfn, ...)
                         /\ pc' = "download_file"
                         /\ xfer' = [fn |-> CurFn, stage |-> "start"]
                         /\ attempts' = Append(attempts, CurFn)
                         /\ UNCHANGED <<items, fs, last_update, touched, stamps>>
                    ELSE \* open(lecfn, 'w').close()
                         /\ fs' = [fs EXCEPT ![CurFn] = File("empty", clock)]
                         /\ touched' = touched \cup {CurFn}
                         /\ last_update' = clock
                         /\ stamps' = stamps \cup {clock}
                         /\ items' = Tail(items)
                         /\ UNCHANGED <<pc, xfer, attempts>>
               ELSE /\ last_update' = Max(last_update, fs[CurFn].mtime)
                    /\ stamps' = stamps \cup {fs[CurFn].mtime}
                    /\ items' = Tail(items)
                    /\ UNCHANGED <<pc, fs, xfer, attempts, touched>>
    /\ UNCHANGED <<args, ci, completed_classes, csrftoken, session, auth_status,
                   raised, local_file, page, sections, secnum, dirs, completed, clock,
                   live_fetches, cf>>
    /\ UNCHANGED <<failed, finished, started, not_found>>

\* lines 539-545
DLReturn ==
    /\ pc = "dl_return"
    /\ completed' = Complete(last_update, clock)
    /\ pc' = "dc_finish"
    \* the counters are locals of the call that returns here
    /\ secnum' = 0
    /\ lecnum' = 0
    /\ UNCHANGED <<args, ci, completed_classes, csrftoken, session, auth_status,
                   raised, local_file, page, sections, items, fs, dirs, last_update,
                   clock, xfer, attempts, touched, stamps, live_fetches, cf>>
    /\ UNCHANGED <<failed, finished, started, not_found>>

\* download_class, lines 879-882, and main, lines 896-897
DCFinish ==
    /\ pc = "dc_finish"
    /\ IF ~args.cookies_file
       THEN \* os.unlink(tmp_cookie_file) of the None write_cookie_file returned
            /\ raised' = "TypeError"
            /\ pc' = "except"
            /\ UNCHANGED <<ci, completed_classes>>
       ELSE /\ completed_classes' = IF completed THEN Append(completed_classes, class_name)
                                    ELSE completed_classes
            /\ ci' = ci + 1
            /\ pc' = "main"
            /\ UNCHANGED raised
    /\ UNCHANGED <<args, csrftoken, session, auth_status, local_file, page, sections,
                   secnum, lecnum, items, fs, dirs, last_update, completed, clock,
                   xfer, attempts, touched, stamps, live_fetches, cf>>
    /\ UNCHANGED <<failed, finished, started, not_found>>

----------------------------------------------------------------------------
(* download_file and the downloaders *)

\* time passes while the data of a transfer is written
Tick ==
    /\ pc = "download_file"
    /\ xfer.stage = "partial"
    /\ clock < Now0 + MaxTicks * Step
    /\ clock' = clock + Step
    /\ UNCHANGED <<args, pc, ci, completed_classes, csrftoken, session, auth_status,
                   raised, local_file, page, sections, secnum, lecnum, items, fs,
                   dirs, last_update, completed, xfer, attempts, touched, stamps,
                   live_fetches, cf>>
    /\ UNCHANGED <<failed, finished, started, not_found>>

\* the downloader opens its output file: open(fn, 'wb') of line 663, or the
\* external program creating the file named by -O / -o
XferOpen ==
    /\ pc = "download_file"
    /\ xfer.stage = "start"
    /\ xfer' = [xfer EXCEPT !.stage = "partial"]
    /\ fs' = [fs EXCEPT ![xfer.fn] = File("partial", clock)]
    /\ UNCHANGED <<args, pc, ci, completed_classes, csrftoken, session, auth_status,
                   raised, local_file, page, sections, secnum, lecnum, items, dirs,
                   last_update, completed, clock, attempts, touched, stamps,
                   live_fetches, cf>>
    /\ UNCHANGED <<failed, finished, started, not_found>>

\* lines 528-532: download_lectures after download_file returned, whatever
\* the downloader's return code rc: the position it goes on from
AfterDownloadAbort(rc) == IF rc = 0 THEN "dl_item" ELSE "dl_return"
AfterDownloadRewind(rc) == "dl_section"
AfterDownload(rc) == "dl_item"

\* the code takes last_update = time.time() whatever rc is
Returned(rc) ==
    /\ pc' = AfterDownload(rc)
    /\ last_update' = clock
    /\ stamps' = IF rc = 0 THEN stamps \cup {clock} ELSE stamps
    /\ items' = Tail(items)
    /\ xfer' = NoXfer

\* the downloader returns 0 with the file written
XferDone ==
    /\ pc = "download_file"
    /\ xfer.stage = "partial"
    /\ fs' = [fs EXCEPT ![xfer.fn] = File("complete", clock)]
    /\ finished' = finished \cup {[fn |-> xfer.fn, mtime |-> clock]}
    /\ Returned(0)
    /\ UNCHANGED <<args, ci, completed_classes, csrftoken, session, auth_status,
                   raised, local_file, page, sections, secnum, lecnum, dirs,
                   completed, clock, attempts, touched, live_fetches, cf>>
    /\ UNCHANGED <<failed, started, not_found>>

\* the downloader fails: download_file_nowget returns 1 on the HTTPError of
\* opener.open (lines 655-658), before it opens the file; an external program
\* exits non-zero at any point and leaves what it wrote
XferFail ==
    /\ pc = "download_file"
    /\ Backend(args) = "native" => xfer.stage = "start"
    /\ failed' = failed \cup {xfer.fn}
    /\ Returned(1)
    /\ UNCHANGED <<args, ci, completed_classes, csrftoken, session, auth_status,
                   raised, local_file, page, sections, secnum, lecnum, fs, dirs,
                   completed, clock, attempts, touched, live_fetches, cf>>
    /\ UNCHANGED <<finished, started, not_found>>

\* os.remove(fn)
os_remove_nothing(files, fn) == files
os_remove(files, fn) == [files EXCEPT ![fn] = NoFile]

\* lines 581-584: KeyboardInterrupt at any point of the transfer; os.remove of
\* a file that is not there raises OSError in place of sys.exit's SystemExit
KeyboardInterrupt ==
    /\ pc = "download_file"
    /\ IF fs[xfer.fn].exists
       THEN /\ fs' = os_remove(fs, xfer.fn)
            /\ raised' = "SystemExit"
       ELSE /\ raised' = "OSError"
            /\ UNCHANGED fs
    /\ pc' = "except"
    /\ UNCHANGED <<args, ci, completed_classes, csrftoken, session, auth_status,
                   local_file, page, sections, secnum, lecnum, items, dirs,
                   last_update, completed, clock, xfer, attempts, touched, stamps,
                   live_fetches, cf>>
    /\ UNCHANGED <<failed, finished, started, not_found>>

----------------------------------------------------------------------------

Next ==
    \/ DownloadClass
    \/ MainDone
    \/ WriteCookieFile
    \/ CatchClassNotFound
    \/ Uncaught
    \/ GetSyllabus
    \/ ParseSyllabus
    \/ DLSection
    \/ DLLecture
    \/ StatFile
    \/ DLItem
    \/ DLReturn
    \/ DCFinish
    \/ Tick
    \/ XferOpen
    \/ XferDone
    \/ XferFail
    \/ KeyboardInterrupt

Spec == Init /\ [][Next]_vars

----------------------------------------------------------------------------
(* clean_filename applied once and twice to a string *)

CleanChars == {"(", ")", " ", ":", "n", "b", "s", "p", "!"}
CleanInputs == UNION {[1..n -> CleanChars] : n \in 0..MaxLen}

InitClean ==
    /\ pc = "main" /\ ci = 1 /\ completed_classes = <<>> /\ csrftoken = ""
    /\ session = "" /\ auth_status = 0 /\ raised = "none"
    /\ args \in {a \in ArgsSet : Options(a) = {}}
    /\ local_file = [exists |-> FALSE, content |-> <<>>]
    /\ page = <<>> /\ sections = <<>> /\ secnum = 0 /\ lecnum = 0 /\ items = <<>>
    /\ fs = <<>> /\ dirs = <<>> /\ last_update = -1 /\ completed = FALSE
    /\ clock = Now0 /\ xfer = NoXfer /\ attempts = <<>> /\ touched = {}
    /\ stamps = {} /\ live_fetches = 0 /\ failed = {} /\ finished = {}
    /\ started = <<>> /\ not_found = {}
    /\ cf \in {[stage |-> "input", s |-> s, once |-> <<>>, twice |-> <<>>] :
                 s \in CleanInputs}

CleanOnce ==
    /\ cf.stage = "input"
    /\ cf' = [cf EXCEPT !.stage = "once", !.once = clean_filename(cf.s)]
    /\ UNCHANGED progvars

CleanTwice ==
    /\ cf.stage = "once"
    /\ cf' = [cf EXCEPT !.stage = "twice", !.twice = clean_filename(cf.once)]
    /\ UNCHANGED progvars

NextClean == CleanOnce \/ CleanTwice

SpecClean == InitClean /\ [][NextClean]_vars

----------------------------------------------------------------------------
(* The files download_lectures is to write for the class in hand, in the    *)
(* order of its loops: stated from the parsed course, not from the loops.   *)

RECURSIVE ConcatAll(_)
ConcatAll(ss) == IF ss = <<>> THEN <<>> ELSE Head(ss) \o ConcatAll(Tail(ss))

Allowed(fmt) == fmt \in args.file_formats \/ "all" \in args.file_formats

FilesOfLecture(sec, j, lec) ==
    LET w == SelectKeep(lec.lecture, {it \in Range(lec.lecture) : Allowed(it[1])})
    IN  [k \in 1..Len(w) |-> LecFn(sec, j, lec.name, w[k][1])]

FilesOfSection(c, i, s) ==
    IF args.section_filter # <<>> /\ ~IsSubstring(args.section_filter, s.name)
    THEN <<>>
    ELSE ConcatAll([j \in 1..Len(s.lectures) |->
            IF args.lecture_filter # <<>>
               /\ ~IsSubstring(args.lecture_filter, s.lectures[j].name)
            THEN <<>>
            ELSE FilesOfLecture(SecDir(c, i, s.name, args.verbose_dirs), j,
                                s.lectures[j])])

AllFiles(c, secs) == ConcatAll([i \in 1..Len(secs) |-> FilesOfSection(c, i, secs[i])])

\* those of them that are to be transferred: all with overwrite, else the
\* ones that are not on disk as an earlier run left them
PlannedFiles ==
    LET all == AllFiles(class_names[ci], sections)
    IN  SelectKeep(all, {f \in Range(all) :
            args.overwrite \/ f \notin DOMAIN fs \/ fs[f].kind # "old"})

InDownloadLectures ==
    pc \in {"dl_section", "dl_lecture", "dl_item", "download_file", "dl_return"}

Interrupted == raised \in {"SystemExit", "OSError"}

----------------------------------------------------------------------------
(* Claims *)

\* C1: in download_lectures, when overwrite is disabled and the destination
\* file of a resource that passed the filters exists, the step that handles
\* the resource calls no downloader, writes no placeholder and leaves every
\* file as it is; it takes last_update to the maximum of last_update and the
\* file's modification time, and goes on to the next resource.
C1_ExistingFileIsSkipped ==
    [][(/\ pc = "dl_item"
        /\ items # <<>>
        /\ CurFn \in DOMAIN fs
        /\ fs[CurFn].exists
        /\ ~args.overwrite)
       => (/\ pc' = "dl_item"
           /\ xfer' = NoXfer
           /\ attempts' = attempts
           /\ touched' = touched
           /\ fs' = fs
           /\ last_update' = (IF fs[CurFn].mtime > last_update
                              THEN fs[CurFn].mtime ELSE last_update)
           /\ items' = Tail(items))]_vars

\* a file found on disk was skipped (in skip-download mode, where a
\* placeholder would have been written) and its mtime is the last update
C1_Witness ==
    /\ ~args.overwrite
    /\ args.skip_download
    /\ pc = "dc_finish"
    /\ touched = {}
    /\ attempts = <<>>
    /\ \E f \in DOMAIN fs : fs[f].kind = "old" /\ last_update = fs[f].mtime

\* C2: download_lectures returns True exactly when at least one file was
\* observed (transferred, written as a placeholder, or already present) and
\* the largest of the transfers' completion times and the present files'
\* modification times is more than 30 days before the current time; otherwise
\* it returns False.
C2_CompletionRule ==
    pc = "dc_finish" =>
        (completed <=> (stamps # {} /\ clock - SetMax(stamps) > 30 * 24 * 3600))

\* C3: when a username is given and the login endpoint answers 200,
\* write_cookie_file returns normally with the session set, raising nothing,
\* and download_class goes on to get the syllabus.
C3_LoginSuccessContinues ==
    [][(pc = "write_cookie_file" /\ auth_status' = 200)
       => (pc' = "get_syllabus" /\ raised' = "none" /\ session' # "")]_vars

\* C4: a failed transfer is not fatal: when download_lectures has returned,
\* the files download_file was called for are exactly the planned files, each
\* once and in order, whatever transfers failed; and once a transfer has
\* failed, only a keyboard interrupt ends the class otherwise.
C4_TransferFailureIsNotFatal ==
    /\ (pc = "dc_finish" /\ ~args.skip_download) => attempts = PlannedFiles
    /\ (failed # {} /\ ~Interrupted) => pc \notin {"except", "exited", "crashed"}
    /\ \A f \in failed : Cardinality({i \in 1..Len(attempts) : attempts[i] = f}) = 1

\* the first of two planned files failed, the second was still attempted and
\* download_lectures returned
C4_Witness ==
    /\ pc = "dc_finish"
    /\ Len(attempts) = 2
    /\ attempts[1] \in failed
    /\ attempts[2] \notin failed

\* C5: after a keyboard interrupt during a transfer the destination file of
\* that transfer does not exist, every file completed earlier in the run is
\* as its transfer left it, the process is on its way out (it never returns to
\* main's loop), and the interrupted transfer is the last one started: no
\* later class is started.
C5_InterruptCleansUpAndTerminates ==
    Interrupted =>
        /\ ~fs[xfer.fn].exists
        /\ \A e \in finished : fs[e.fn] = File("complete", e.mtime)
        /\ pc \in {"except", "exited", "crashed"}
        /\ attempts # <<>> /\ attempts[Len(attempts)] = xfer.fn
        /\ Len(started) = ci /\ started[ci] = xfer.fn.dir.cls

\* interrupted while the second file was partly written, the first one done,
\* with a class still to come
C5_Witness ==
    /\ pc = "exited"
    /\ finished # {}
    /\ ci < Len(class_names)
    /\ xfer.stage = "partial"

\* C6: main takes the class names one after another in the order given; a
\* ClassNotFound is caught, the classes after it are still processed, and the
\* class it was raised for is never in completed_classes.
C6_ClassesInOrderDespiteNotFound ==
    /\ Len(started) <= Len(class_names)
    /\ started = SubSeq(class_names, 1, Len(started))
    /\ pc \notin {"main", "done"} => Len(started) = ci
    /\ pc = "main" => Len(started) = ci - 1
    /\ pc = "done" => started = class_names
    /\ \A c \in not_found : c \notin Range(completed_classes)
    /\ pc \in {"exited", "crashed"} => raised # "ClassNotFound"

\* the first class was not found, the second was downloaded and all is done
C6_Witness ==
    /\ pc = "done"
    /\ 1 \in not_found
    /\ 2 \notin not_found
    /\ \E e \in finished : e.fn.dir.cls = 2

\* C7: when some lecture of the page has no mp4 anchor, parse_syllabus raises
\* and returns no sections: download_lectures is not entered, no file is
\* transferred or written and no directory is made for the class.
PageMissesVideo(pg) ==
    \E i \in 1..Len(pg) : \E j \in 1..Len(pg[i].lectures) :
        \A k \in 1..Len(pg[i].lectures[j].anchors) :
            pg[i].lectures[j].anchors[k][1] # "mp4"

C7_MissingVideoRejectsCourse ==
    (PageMissesVideo(page) /\ pc # "parse_syllabus") =>
        /\ raised = "ClassNotFound"
        /\ sections = <<>>
        /\ ~InDownloadLectures /\ pc # "dc_finish"
        /\ attempts = <<>> /\ touched = {} /\ stamps = {}
        /\ \A d \in DOMAIN dirs : d.cls # started[Len(started)]
        /\ \A f \in DOMAIN fs : f.dir.cls # started[Len(started)]

\* the page whose second section has a lecture without mp4 was rejected
C7_Witness ==
    /\ page = BadPage
    /\ pc = "except"
    /\ raised = "ClassNotFound"

\* C8: with a local page path configured, once get_syllabus has run the file
\* at that path exists and holds the page returned: a missing file was fetched
\* live and written, a present file was read without a live fetch.
C8_LocalPageWriteThrough ==
    (/\ args.local_page
     /\ \/ pc = "parse_syllabus"
        \/ pc = "except" /\ raised \in {"IOError", "HTTPError"})
    => (/\ raised = "none"
        /\ local_file.exists
        /\ page = local_file.content)

\* C9: only resources whose format is in file_formats, or any format when
\* file_formats holds "all", are looked at, transferred or written, and only
\* they feed last_update.
C9_OnlyAllowedFormats ==
    /\ \A f \in DOMAIN fs : Allowed(f.file.fmt)
    /\ \A i \in 1..Len(attempts) : Allowed(attempts[i].file.fmt)
    /\ \A f \in touched : Allowed(f.file.fmt)
    /\ pc = "dc_finish" =>
          Cardinality(stamps) <= Len(AllFiles(class_names[ci], sections))
    /\ (pc = "dc_finish" /\ AllFiles(class_names[ci], sections) = <<>>) => ~completed

\* of a lecture offered as mp4 and pdf, with file_formats = pdf, the pdf
\* was transferred and nothing else
C9_Witness ==
    /\ args.file_formats = {"pdf"}
    /\ page = FormatsPage
    /\ pc = "dc_finish"
    /\ Len(attempts) = 1
    /\ attempts[1].file.fmt = "pdf"
    /\ DOMAIN fs = {attempts[1]}

\* C10: clean_filename(clean_filename(x)) = clean_filename(x)
C10_CleanFilenameIdempotent ==
    cf.stage = "twice" => cf.twice = cf.once

\* C11: parse_syllabus returns the sections in the order of their headers in
\* the page and, in each section, the lectures in the order of its list
\* items; with reverse set the sections come in exactly the opposite order,
\* each with its lectures in the same order as without the option.
C11_ParseKeepsOrder ==
    (InDownloadLectures \/ pc = "dc_finish") =>
        LET n == Len(page)
            plain == parse_syllabus(page, FALSE).sections
        IN  /\ Len(sections) = n
            /\ Len(plain) = n
            /\ \A i \in 1..n :
                 /\ plain[i].name = clean_filename(page[i].name)
                 /\ Len(plain[i].lectures) = Len(page[i].lectures)
                 /\ \A j \in 1..Len(page[i].lectures) :
                      plain[i].lectures[j].name =
                          clean_filename(page[i].lectures[j].name)
            /\ \A i \in 1..n :
                 sections[i] = plain[IF args.reverse THEN n + 1 - i ELSE i]

\* a page of two sections was parsed with reverse set: its second section
\* comes first
C11_Witness ==
    /\ args.reverse
    /\ page = SectionsPage
    /\ pc = "dc_finish"
    /\ sections[1].name = <<"B">>
    /\ sections[2].name = <<"A">>

\* C12: download_lectures makes a section's directory only when a file of
\* that section is to be written: every directory it made for the class in
\* hand holds the destination of some resource that passes the section
\* filter, the lecture filter and the format list.
C12_SectionDirsAreLazy ==
    (InDownloadLectures \/ pc = "dc_finish") =>
        \A d \in DOMAIN dirs :
            (d.cls = class_names[ci] /\ dirs[d] = "made") =>
                \E f \in Range(AllFiles(class_names[ci], sections)) : f.dir = d

\* C13: a transfer that reports failure leaves last_update as it was: only a
\* transfer that succeeded, a placeholder or a file already present moves it.
C13_FailedTransferKeepsLastUpdate ==
    [][(pc = "download_file" /\ failed' # failed) => last_update' = last_update]_vars

\* C14: with skip_download set no downloader is ever called; every file that
\* would have been transferred (all with overwrite, else the absent ones) is
\* written as an empty file stamped with the current time, last_update is at
\* least that time, and a call of download_lectures that wrote a placeholder
\* returns False.
C14_SkipDownloadWritesPlaceholders ==
    args.skip_download =>
        /\ attempts = <<>> /\ finished = {} /\ failed = {}
        /\ xfer = NoXfer /\ pc # "download_file"
        /\ \A f \in touched :
             /\ fs[f].exists /\ fs[f].kind = "empty"
             /\ fs[f].mtime <= clock
             /\ last_update >= fs[f].mtime
        /\ pc = "dc_finish" =>
             /\ touched = Range(PlannedFiles)
             /\ touched # {} => ~completed

\* in skip-download mode a class with two files, one found on disk from long
\* ago and one absent: the absent one got its placeholder, the class is not
\* complete
C14_Witness ==
    /\ args.skip_download
    /\ pc = "dc_finish"
    /\ Cardinality(touched) = 1
    /\ \E f \in DOMAIN fs : fs[f].kind = "old"
    /\ ~completed

\* C15: within one class the transfers start one at a time, in the order of
\* the sections and, in a section, of the lectures: a transfer is in flight
\* only as the last one started, every transfer started before it has
\* returned (with success or failure), no file is started twice, and a
\* transfer started later never belongs to an earlier section, nor to an
\* earlier lecture of the same section.
C15_TransfersOneAtATimeInOrder ==
    LET n == Len(attempts)
        inflight == IF pc = "download_file" THEN 1 ELSE 0
        returned == {f \in Range(attempts) :
                        f \in failed \/ \E e \in finished : e.fn = f}
    IN  /\ pc = "download_file" => (n > 0 /\ xfer.fn = attempts[n])
        /\ (pc # "download_file" /\ ~Interrupted) => xfer = NoXfer
        /\ ~Interrupted => \A i \in 1..(n - inflight) : attempts[i] \in returned
        /\ \A i, j \in 1..n : i < j =>
             /\ attempts[i] # attempts[j]
             /\ attempts[i].dir.cls = attempts[j].dir.cls
             /\ attempts[i].dir.sec.num <= attempts[j].dir.sec.num
             /\ attempts[i].dir.sec.num = attempts[j].dir.sec.num =>
                    attempts[i].file.num <= attempts[j].file.num

\* two transfers, of two sections or of two lectures of one section, were
\* started in that order, the second after the first had failed
C15_Witness ==
    /\ pc = "dc_finish"
    /\ Len(attempts) = 2
    /\ \/ attempts[1].dir.sec.num < attempts[2].dir.sec.num
       \/ /\ attempts[1].dir = attempts[2].dir
          /\ attempts[1].file.num < attempts[2].file.num
    /\ attempts[1] \in failed

\* C16: the number in a section directory's name is the section's 1-based
\* position in the parsed course and the number in a file's name the
\* lecture's position in its section, whatever the filters: every directory
\* and file download_lectures handles for the class in hand is the one an
\* unfiltered run derives from the same parsed course.
C16_NumbersArePositionsBeforeFiltering ==
    (InDownloadLectures \/ pc = "dc_finish") =>
        LET c == class_names[ci]
            SecAt(i) == [cls |-> c,
                         sec |-> [prefix |-> IF args.verbose_dirs THEN c ELSE 0,
                                  num |-> i, name |-> sections[i].name]]
        IN  /\ \A d \in DOMAIN dirs : d.cls = c =>
                  \E i \in 1..Len(sections) : d = SecAt(i)
            /\ \A f \in (DOMAIN fs \cup Range(attempts) \cup touched) : f.dir.cls = c =>
                  \E i \in 1..Len(sections) :
                      /\ f.dir = SecAt(i)
                      /\ \E j \in 1..Len(sections[i].lectures) :
                            /\ f.file.num = j
                            /\ f.file.name = sections[i].lectures[j].name
                            /\ f.file.fmt \in LectureFormats(sections[i].lectures[j].lecture)

\* with a section filter that keeps only the second section, its file was
\* transferred into the directory numbered 2
C16_Witness ==
    /\ args.section_filter = <<"B">>
    /\ pc = "dc_finish"
    /\ Len(attempts) = 1
    /\ attempts[1].dir.sec.num = 2
    /\ attempts[1].dir.sec.name = <<"B">>
    /\ attempts[1].file.num = 1

====
